---- MODULE Spec2Model ----
(***************************************************************************)
(* Model of qmk/secret_storage.c: the raw-HID command dispatcher           *)
(* raw_hid_receive_kb, the flash engine (secret_read_bytes,                *)
(* secret_erase_range, secret_write_bytes), the busy/abort flags and the   *)
(* key hook secret_storage_process_record_user.                            *)
(*                                                                         *)
(* uint32_t values are pairs <<hi, lo>> of 16-bit limbs, so that all       *)
(* arithmetic is taken modulo 2^32 exactly as in the C code.               *)
(*                                                                         *)
(* The flash geometry (PICO_FLASH_SIZE_BYTES, WEAR_LEVELING_BACKING_SIZE,  *)
(* SECRET_STORAGE_SIZE, FLASH_SECTOR_SIZE, FLASH_PAGE_SIZE) comes from the *)
(* build configuration, not from the source file.  The model uses a small  *)
(* geometry that satisfies every _Static_assert of the file and keeps a    *)
(* sector larger than SECRET_MAX_READ, as on the target (4096 > 28), so a  *)
(* transfer crosses at most one sector boundary.                           *)
(***************************************************************************)
EXTENDS Integers, Sequences, FiniteSets, TLC

\* ---------------------------------------------------------------- constants

SECRET_CMD_INFO == 160
SECRET_CMD_READ == 161
SECRET_CMD_WRITE == 162
SECRET_CMD_ERASE == 163

SECRET_STATUS_OK == 0
SECRET_STATUS_ERR == 1
SECRET_STATUS_BUSY == 2
SECRET_STATUS_RANGE == 3
SECRET_STATUS_ALIGN == 4
SECRET_STATUS_ABORT == 5

SECRET_MAX_READ == 28
SECRET_MAX_WRITE == 26

\* id_unhandled, the sentinel written to data[0]
ID_UNHANDLED == 255

\* the value of an erased flash byte
ERASED == 255

\* size of a raw HID frame (uint8_t req[32])
FRAME_SIZE == 32

\* the keycode of the escape key
KC_ESC == 41

\* the build configuration's geometry, scaled down (see the head of the module)
FLASH_PAGE_SIZE == 16
FLASH_SECTOR_SIZE == 32
PICO_FLASH_SIZE_BYTES == 128
WEAR_LEVELING_BACKING_SIZE == 32
SECRET_STORAGE_SIZE == 64

\* number of raw_hid_receive_kb invocations explored in one behaviour
MaxFrames == 2

\* ------------------------------------------------------- uint32_t arithmetic

\* 2^16: a uint32_t is the pair <<hi, lo>> standing for hi * 2^16 + lo
LIMB == 65536

U32(n) == <<n \div LIMB, n % LIMB>>

Add32(a, b) ==
    LET lo == a[2] + b[2]
        hi == a[1] + b[1] + (lo \div LIMB)
    IN  <<hi % LIMB, lo % LIMB>>

Sub32(a, b) ==
    LET borrow == IF a[2] < b[2] THEN 1 ELSE 0
        lo == a[2] + borrow * LIMB - b[2]
        hi == a[1] + LIMB - b[1] - borrow
    IN  <<hi % LIMB, lo>>

Lt32(a, b) == a[1] < b[1] \/ (a[1] = b[1] /\ a[2] < b[2])

Gt32(a, b) == Lt32(b, a)

\* x % FLASH_SECTOR_SIZE (the sector size divides 2^16)
ModSector(a) == a[2] % FLASH_SECTOR_SIZE

\* x & ~(FLASH_SECTOR_SIZE - 1)
SectorStart(a) == <<a[1], a[2] - (a[2] % FLASH_SECTOR_SIZE)>>

SECRET_STORAGE_BASE ==
    Sub32(Sub32(U32(PICO_FLASH_SIZE_BYTES), U32(WEAR_LEVELING_BACKING_SIZE)),
          U32(SECRET_STORAGE_SIZE))

\* lines 25-29: the build fails unless the geometry satisfies these
StaticAsserts ==
    /\ SECRET_STORAGE_SIZE > 0
    /\ SECRET_STORAGE_SIZE % FLASH_SECTOR_SIZE = 0
    /\ WEAR_LEVELING_BACKING_SIZE % FLASH_SECTOR_SIZE = 0
    /\ ModSector(SECRET_STORAGE_BASE) = 0
    /\ SECRET_STORAGE_SIZE + WEAR_LEVELING_BACKING_SIZE <= PICO_FLASH_SIZE_BYTES

read_u32_be(p, i) == <<p[i] * 256 + p[i + 1], p[i + 2] * 256 + p[i + 3]>>

\* write_u32_be with the byte order reversed
write_u32_le(v) ==
    <<v[2] % 256, (v[2] \div 256) % 256, v[1] % 256, (v[1] \div 256) % 256>>

\* the four bytes write_u32_be stores, most significant first
write_u32_be(v) ==
    <<(v[1] \div 256) % 256, v[1] % 256, (v[2] \div 256) % 256, v[2] % 256>>

secret_flash_offset(offset) == Add32(SECRET_STORAGE_BASE, offset)

\* ------------------------------------------------------------------- flash

FlashAddrs == 0 .. (PICO_FLASH_SIZE_BYTES - 1)

\* flash_range_erase called with FLASH_PAGE_SIZE as its count
flash_range_erase_page(f, addr) ==
    [x \in FlashAddrs |->
        IF x >= addr[2] /\ x < addr[2] + FLASH_PAGE_SIZE THEN ERASED ELSE f[x]]

\* flash_range_erase(addr, FLASH_SECTOR_SIZE)
flash_range_erase(f, addr) ==
    [x \in FlashAddrs |->
        IF x >= addr[2] /\ x < addr[2] + FLASH_SECTOR_SIZE THEN ERASED ELSE f[x]]

\* flash_range_program(addr, buf + i, FLASH_PAGE_SIZE) on a page that has
\* just been erased: every bit of the page is 1, so the page takes buf's bytes
flash_range_program(f, addr, buf, i) ==
    [x \in FlashAddrs |->
        IF x >= addr[2] + i /\ x < addr[2] + i + FLASH_PAGE_SIZE
        THEN buf[x - addr[2]] ELSE f[x]]


\* ------------------------------------------------------------------- state

VARIABLES
    flash,              \* the flash chip, byte by byte
    secret_busy,        \* static volatile bool secret_busy
    secret_abort,       \* static volatile bool secret_abort
    secret_sector_buf,  \* static uint8_t secret_sector_buf[FLASH_SECTOR_SIZE]
    stack,              \* the raw_hid_receive_kb invocations in progress, outermost first
    last,               \* the invocation that returned most recently
    nframes,            \* number of invocations so far
    key                 \* the key event an observer saw handed to the hook, and
                        \* what the hook returned for it

vars == <<flash, secret_busy, secret_abort, secret_sector_buf, stack, last, nframes, key>>

FrameIdx == 0 .. (FRAME_SIZE - 1)

SectorIdx == 0 .. (FLASH_SECTOR_SIZE - 1)

\* the shared state a dispatch may change, as seen at one moment
Snapshot == [flash |-> flash, busy |-> secret_busy, abort |-> secret_abort]

\* ------------------------------------------------ raw_hid_receive_kb, entry

IsCmd(b) ==
    b = SECRET_CMD_INFO \/ b = SECRET_CMD_READ \/ b = SECRET_CMD_WRITE \/ b = SECRET_CMD_ERASE

\* the command byte looked for at offset 1 first, then at offset 0
ClassifyByteOneFirst(req) ==
    IF IsCmd(req[1]) THEN [handled |-> TRUE, base |-> 1, cmd |-> req[1]]
    ELSE IF IsCmd(req[0]) THEN [handled |-> TRUE, base |-> 0, cmd |-> req[0]]
    ELSE [handled |-> FALSE, base |-> 0, cmd |-> req[0]]

\* lines 125-136: the command byte is looked for at offset 0, then at offset 1
Classify(req) ==
    IF IsCmd(req[0]) THEN [handled |-> TRUE, base |-> 0, cmd |-> req[0]]
    ELSE IF IsCmd(req[1]) THEN [handled |-> TRUE, base |-> 1, cmd |-> req[1]]
    ELSE [handled |-> FALSE, base |-> 0, cmd |-> req[0]]

\* data[0] = 0xFF; return
Unhandled(data) == [data EXCEPT ![0] = ID_UNHANDLED]

\* memset(&data[1], 0, 31); if (base == 1) data[0] = req[0];
ClearResponse(data, req, base) ==
    [i \in FrameIdx |-> IF i = 0 THEN (IF base = 1 THEN req[0] ELSE data[0]) ELSE 0]

\* p[1] = status, where p = data + base
SetStatus(data, base, status) == [data EXCEPT ![base + 1] = status]

\* the bytes p[k .. k+3] := write_u32_be(v)
PutU32(data, base, k, v) ==
    [i \in FrameIdx |->
        IF i >= base + k /\ i < base + k + 4 THEN write_u32_be(v)[i - (base + k) + 1]
        ELSE data[i]]

\* lines 147-156
InfoResponse(data, base) ==
    LET d1 == SetStatus(data, base, SECRET_STATUS_OK)
        d2 == PutU32(d1, base, 2, U32(SECRET_STORAGE_SIZE))
        d3 == PutU32(d2, base, 6, U32(PICO_FLASH_SIZE_BYTES))
        d4 == PutU32(d3, base, 10, U32(WEAR_LEVELING_BACKING_SIZE))
        d5 == PutU32(d4, base, 14, SECRET_STORAGE_BASE)
    IN  [d5 EXCEPT ![base + 18] = SECRET_MAX_READ, ![base + 19] = SECRET_MAX_WRITE]

\* the READ size check with the limit off by one
ReadSizeBadOffByOne(size) == size = 0 \/ size > SECRET_MAX_READ + 1

\* size == 0 || size > SECRET_MAX_READ
ReadSizeBad(size) == size = 0 \/ size > SECRET_MAX_READ

\* size == 0 || size > SECRET_MAX_WRITE
WriteSizeBad(size) == size = 0 \/ size > SECRET_MAX_WRITE

\* offset + size > SECRET_STORAGE_SIZE, in uint32_t arithmetic
RangeBad(offset, size) == Gt32(Add32(offset, size), U32(SECRET_STORAGE_SIZE))

\* the alignment check without its test of size
MisalignedOffsetOnly(offset, size) == ModSector(offset) # 0

\* (offset % FLASH_SECTOR_SIZE) != 0 || (size % FLASH_SECTOR_SIZE) != 0
Misaligned(offset, size) == ModSector(offset) # 0 \/ ModSector(size) # 0

\* the status with which validation rejects a request, or "accept"
Validate(cmd, offset, size) ==
    IF cmd = SECRET_CMD_READ THEN
        IF ReadSizeBad(size[2]) THEN SECRET_STATUS_ERR
        ELSE IF RangeBad(offset, size) THEN SECRET_STATUS_RANGE
        ELSE -1
    ELSE IF cmd = SECRET_CMD_WRITE THEN
        IF WriteSizeBad(size[2]) THEN SECRET_STATUS_ERR
        ELSE IF RangeBad(offset, size) THEN SECRET_STATUS_RANGE
        ELSE -1
    ELSE
        IF size = U32(0) THEN SECRET_STATUS_ERR
        ELSE IF RangeBad(offset, size) THEN SECRET_STATUS_RANGE
        ELSE IF Misaligned(offset, size) THEN SECRET_STATUS_ALIGN
        ELSE -1

\* the size field: uint8_t r[5] for READ and WRITE, read_u32_be(&r[5]) for ERASE
SizeField(req, base, cmd) ==
    IF cmd = SECRET_CMD_ERASE THEN read_u32_be(req, base + 5) ELSE U32(req[base + 5])

\* src[i] as secret_write_bytes reads it, src being &r[6]: req has 32 bytes, so
\* an index past 31 reads whatever lies behind the array
WriteSrc(req, base, junk, i) ==
    IF base + 6 + i < FRAME_SIZE THEN req[base + 6 + i] ELSE junk

\* a fresh invocation record
Invocation(req, c, depth) ==
    [req |-> req, data |-> req, base |-> c.base, cmd |-> c.cmd, handled |-> c.handled,
     offset |-> U32(0), size |-> U32(0), pc |-> "entry",
     addr |-> U32(0), end |-> U32(0), length |-> 0, junk |-> 0, srcpos |-> 0,
     ok |-> FALSE, ran |-> FALSE, depth |-> depth,
     pre |-> Snapshot, post |-> <<>>,
     hw |-> {}, rd |-> FALSE, esc |-> FALSE, early |-> FALSE, reent |-> FALSE,
     oob |-> FALSE, eabort |-> FALSE]

\* the checks without the test of secret_busy
DecideIgnoreBusy(cmd, busy, v) ==
    IF cmd = SECRET_CMD_INFO THEN -2 ELSE v

\* the checks with the arguments validated before secret_busy is tested
DecideValidateFirst(cmd, busy, v) ==
    IF cmd = SECRET_CMD_INFO THEN -2
    ELSE IF v # -1 THEN v
    ELSE IF busy THEN SECRET_STATUS_BUSY
    ELSE -1

\* the checks with secret_busy tested before INFO is answered
DecideBusyFirst(cmd, busy, v) ==
    IF busy THEN SECRET_STATUS_BUSY
    ELSE IF cmd = SECRET_CMD_INFO THEN -2
    ELSE v

\* the order of the checks of lines 147-233: INFO is answered first (-2), then
\* secret_busy is tested, then the arguments are validated (v, -1 to accept)
Decide(cmd, busy, v) ==
    IF cmd = SECRET_CMD_INFO THEN -2
    ELSE IF busy THEN SECRET_STATUS_BUSY
    ELSE v

\* lines 122-233: everything raw_hid_receive_kb does before it either returns
\* or reaches "secret_busy = true"
Entry(req, junk, depth) ==
    LET c == Classify(req)
        inv == Invocation(req, c, depth)
        base == c.base
        cleared == ClearResponse(req, req, base)
        offset == read_u32_be(req, base + 1)
        size == SizeField(req, base, c.cmd)
        d == Decide(c.cmd, secret_busy, Validate(c.cmd, offset, size))
    IN  IF ~c.handled
            THEN [inv EXCEPT !.data = Unhandled(req), !.pc = "done", !.post = Snapshot]
        ELSE IF d = -2
            THEN [inv EXCEPT !.data = InfoResponse(cleared, base), !.pc = "done",
                             !.post = Snapshot]
        ELSE IF d # -1
            THEN [inv EXCEPT !.data = SetStatus(cleared, base, d), !.pc = "done",
                             !.post = Snapshot, !.offset = offset, !.size = size]
        ELSE [inv EXCEPT !.data = cleared, !.pc = "set_busy",
                         !.offset = offset, !.size = size,
                         !.junk = IF c.cmd = SECRET_CMD_WRITE THEN junk ELSE 0,
                         !.oob = (c.cmd = SECRET_CMD_WRITE /\ base + 6 + size[2] > FRAME_SIZE)]

\* ------------------------------------------------------------ engine steps

Top == stack[Len(stack)]

SetTop(inv) == [stack EXCEPT ![Len(stack)] = inv]

\* line 176 / 204 / 235: secret_busy = true
SetBusy ==
    /\ stack # <<>>
    /\ Top.pc = "set_busy"
    /\ secret_busy' = TRUE
    /\ stack' = SetTop([Top EXCEPT !.pc = "clear_abort"])
    /\ UNCHANGED <<flash, secret_abort, secret_sector_buf, last, nframes, key>>

\* lines 56-61 of secret_erase_range and line 76 of secret_write_bytes: what
\* the engine computes on entry, before its loop
EngineEntry(inv) ==
    IF inv.cmd = SECRET_CMD_ERASE THEN
        IF Misaligned(inv.offset, inv.size)
        THEN [inv EXCEPT !.ran = TRUE, !.ok = FALSE, !.pc = "clear_busy",
                         !.eabort = FALSE]
        ELSE [inv EXCEPT !.ran = TRUE, !.pc = "engine",
                         !.addr = secret_flash_offset(inv.offset),
                         !.end = Add32(secret_flash_offset(inv.offset), inv.size)]
    ELSE IF inv.cmd = SECRET_CMD_WRITE THEN
        [inv EXCEPT !.ran = TRUE, !.pc = "engine",
                    !.addr = secret_flash_offset(inv.offset),
                    !.length = inv.size[2], !.srcpos = 0]
    ELSE [inv EXCEPT !.ran = TRUE, !.pc = "engine"]

\* line 177 / 205 / 236: secret_abort = false, then the engine is called
ClearAbort ==
    /\ stack # <<>>
    /\ Top.pc = "clear_abort"
    /\ secret_abort' = FALSE
    /\ stack' = SetTop(EngineEntry(Top))
    /\ UNCHANGED <<flash, secret_busy, secret_sector_buf, last, nframes, key>>

\* secret_read_bytes: memcpy(dst, XIP_BASE + secret_flash_offset(offset), length)
\* with dst = &p[3]
secret_read_bytes(data, base, offset, length) ==
    [i \in FrameIdx |->
        IF i >= base + 3 /\ i < base + 3 + length
        THEN flash[Add32(secret_flash_offset(offset), U32(i - (base + 3)))[2]]
        ELSE data[i]]

\* line 178
ReadStep ==
    /\ stack # <<>>
    /\ Top.pc = "engine"
    /\ Top.cmd = SECRET_CMD_READ
    /\ stack' = SetTop([Top EXCEPT
            !.data = secret_read_bytes(Top.data, Top.base, Top.offset, Top.size[2]),
            !.rd = TRUE, !.ok = TRUE, !.pc = "clear_busy", !.eabort = secret_abort])
    /\ UNCHANGED <<flash, secret_busy, secret_abort, secret_sector_buf, last, nframes, key>>

\* lines 63-72: one pass through the head of the for loop and its body
EraseStep ==
    /\ stack # <<>>
    /\ Top.pc = "engine"
    /\ Top.cmd = SECRET_CMD_ERASE
    /\ IF ~Lt32(Top.addr, Top.end) THEN
            /\ stack' = SetTop([Top EXCEPT !.ok = TRUE, !.pc = "clear_busy",
                                             !.eabort = secret_abort])
            /\ flash' = flash
       ELSE IF secret_abort THEN
            /\ stack' = SetTop([Top EXCEPT !.ok = FALSE, !.pc = "clear_busy",
                                             !.eabort = secret_abort])
            /\ flash' = flash
       ELSE
            /\ flash' = flash_range_erase(flash, Top.addr)
            /\ stack' = SetTop([Top EXCEPT
                    !.addr = Add32(Top.addr, U32(FLASH_SECTOR_SIZE)),
                    !.hw = Top.hw \cup {Top.addr}])
    /\ UNCHANGED <<secret_busy, secret_abort, secret_sector_buf, last, nframes, key>>

\* the chunk not cut at the end of the sector
ChunkNoSplit(addr, length) == length

\* chunk = FLASH_SECTOR_SIZE - sector_offset; if (chunk > length) chunk = length
Chunk(addr, length) ==
    LET room == FLASH_SECTOR_SIZE - ModSector(addr)
    IN  IF room > length THEN length ELSE room

\* lines 90-91: the sector copied into the scratch buffer, the chunk laid over it
StageSector(f, addr, inv, chunk) ==
    LET start == SectorStart(addr)
        so == ModSector(addr)
    IN  [i \in SectorIdx |->
            IF i >= so /\ i < so + chunk
            THEN WriteSrc(inv.req, inv.base, inv.junk, inv.srcpos + (i - so))
            ELSE f[start[2] + i]]

\* only the page at i programmed, the rest of the sector left erased
ProgramOnePage(f, start, buf, i) == flash_range_program(f, start, buf, i)

RECURSIVE ProgramPages(_, _, _, _)
\* lines 95-97: the sector programmed page by page from the scratch buffer
ProgramPages(f, start, buf, i) ==
    IF i >= FLASH_SECTOR_SIZE THEN f
    ELSE ProgramPages(flash_range_program(f, start, buf, i), start, buf, i + FLASH_PAGE_SIZE)

\* lines 93-98: erase and program under one interrupt-disabled section
CommitSector(f, start, buf) == ProgramPages(flash_range_erase(f, start), start, buf, 0)

\* lines 78-105: one pass through the head of the while loop and its body
WriteStep ==
    /\ stack # <<>>
    /\ Top.pc = "engine"
    /\ Top.cmd = SECRET_CMD_WRITE
    /\ IF Top.length = 0 THEN
            /\ stack' = SetTop([Top EXCEPT !.ok = TRUE, !.pc = "clear_busy",
                                             !.eabort = secret_abort])
            /\ UNCHANGED <<flash, secret_sector_buf>>
       ELSE IF secret_abort THEN
            /\ stack' = SetTop([Top EXCEPT !.ok = FALSE, !.pc = "clear_busy",
                                             !.eabort = secret_abort])
            /\ UNCHANGED <<flash, secret_sector_buf>>
       ELSE
            LET chunk == Chunk(Top.addr, Top.length)
                start == SectorStart(Top.addr)
                buf == StageSector(flash, Top.addr, Top, chunk)
            IN  /\ secret_sector_buf' = buf
                /\ flash' = CommitSector(flash, start, buf)
                /\ stack' = SetTop([Top EXCEPT
                        !.addr = Add32(Top.addr, U32(chunk)),
                        !.srcpos = Top.srcpos + chunk,
                        !.length = Top.length - chunk,
                        !.hw = Top.hw \cup {start}])
    /\ UNCHANGED <<secret_busy, secret_abort, last, nframes, key>>

\* the guard without its clear of secret_busy
LeaveBusy ==
    /\ stack # <<>>
    /\ Top.pc = "clear_busy"
    /\ stack' = SetTop([Top EXCEPT !.pc = "report"])
    /\ UNCHANGED <<flash, secret_busy, secret_abort, secret_sector_buf, last, nframes, key>>

\* line 179 / 207 / 238: secret_busy = false
ClearBusy ==
    /\ stack # <<>>
    /\ Top.pc = "clear_busy"
    /\ secret_busy' = FALSE
    /\ stack' = SetTop([Top EXCEPT !.pc = "report"])
    /\ UNCHANGED <<flash, secret_abort, secret_sector_buf, last, nframes, key>>

\* lines 181-188 / 209-215 / 240-246: the status written after the engine
ReportStatus(inv, abort) ==
    IF abort THEN SetStatus(inv.data, inv.base, SECRET_STATUS_ABORT)
    ELSE IF inv.cmd = SECRET_CMD_READ
        THEN [SetStatus(inv.data, inv.base, SECRET_STATUS_OK) EXCEPT ![inv.base + 2] = inv.size[2]]
    ELSE SetStatus(inv.data, inv.base, IF inv.ok THEN SECRET_STATUS_OK ELSE SECRET_STATUS_ERR)

\* the invocation reads secret_abort, writes its status and returns; eabort,
\* the flag as the engine left it, is observed while the invocation is in
\* progress and is not kept with the returned one
Report ==
    /\ stack # <<>>
    /\ Top.pc = "report"
    /\ last' = [Top EXCEPT !.data = ReportStatus(Top, secret_abort), !.pc = "done",
                           !.post = Snapshot, !.eabort = FALSE]
    /\ stack' = SubSeq(stack, 1, Len(stack) - 1)
    /\ UNCHANGED <<flash, secret_busy, secret_abort, secret_sector_buf, nframes, key>>

\* ------------------------------------------------------------ key hook

\* the invocation has passed validation and has not yet called the engine: it
\* stands before line 176 / 204 / 235 or before line 177 / 205 / 236
BeforeEngine(inv) == inv.pc \in {"set_busy", "clear_abort"}

\* the invocation records annotated with an ESC press that reached the hook
\* while secret_busy was true
NoteKey(st, esc) ==
    [k \in 1 .. Len(st) |-> [st[k] EXCEPT !.esc = @ \/ (esc /\ secret_busy)]]

\* the same, annotated also with an ESC press that reached the hook before
\* the invocation called the engine
NoteEarly(st, esc) ==
    [k \in 1 .. Len(st) |->
        [st[k] EXCEPT !.esc = @ \/ (esc /\ secret_busy),
                      !.early = @ \/ (esc /\ BeforeEngine(st[k]))]]

\* the hook with the test of the keycode left out: any key press cancels
process_record_any_press(keycode, pressed, ret) ==
    /\ IF secret_busy THEN
            /\ secret_abort' = (IF pressed THEN TRUE ELSE secret_abort)
            /\ ret = FALSE
       ELSE
            /\ secret_abort' = secret_abort
            /\ ret = TRUE
    /\ UNCHANGED <<flash, secret_busy, secret_sector_buf, last, nframes>>

\* secret_storage_process_record_user(keycode, record), returning ret
secret_storage_process_record_user(keycode, pressed, ret) ==
    /\ IF secret_busy THEN
            /\ secret_abort' = (IF pressed /\ keycode = KC_ESC THEN TRUE ELSE secret_abort)
            /\ ret = FALSE
       ELSE
            /\ secret_abort' = secret_abort
            /\ ret = TRUE
    /\ UNCHANGED <<flash, secret_busy, secret_sector_buf, last, nframes>>


\* ------------------------------------------------------------------ inputs

\* 2^32 - n as a uint32_t, for 0 < n <= 65536
Neg32(n) == <<LIMB - 1, LIMB - n>>

\* a frame: the given bytes, zero padded or cut to FRAME_SIZE bytes
Frame(bytes) == [i \in FrameIdx |-> IF i < Len(bytes) THEN bytes[i + 1] ELSE 0]

\* the payload bytes 0x01 .. 0x1A, shifted by 32 * seed
Payload(seed) == [i \in 1 .. SECRET_MAX_WRITE |-> (32 * seed + i) % 256]

\* a 32-bit field as the host tool sends and expects it: big-endian
BE32(v) == <<v[1] \div 256, v[1] % 256, v[2] \div 256, v[2] % 256>>

ReadReq(o, n) == <<SECRET_CMD_READ>> \o BE32(o) \o <<n>>

WriteReq(o, n, seed) == <<SECRET_CMD_WRITE>> \o BE32(o) \o <<n>> \o Payload(seed)

EraseReq(o, n) == <<SECRET_CMD_ERASE>> \o BE32(o) \o BE32(n)

\* <<offset, size>> of the READ requests: bad sizes, the largest size, across
\* the sector boundary, up to the end of the region, past it, and wrapping
ReadArgs ==
    {<<U32(0), 0>>, <<U32(0), 28>>, <<U32(0), 29>>, <<U32(39), 29>>, <<U32(20), 26>>,
     <<U32(38), 26>>, <<U32(39), 26>>, <<Neg32(1), 2>>}

\* <<offset, size>> of the WRITE requests, chosen likewise
WriteArgs ==
    {<<U32(0), 0>>, <<U32(0), 27>>, <<U32(39), 27>>, <<U32(20), 26>>, <<U32(38), 26>>,
     <<U32(39), 26>>, <<Neg32(1), 2>>}

\* <<offset, size>> of the ERASE requests: aligned and in range, zero size,
\* misaligned, out of range, both, and wrapping
EraseArgs ==
    {<<U32(0), U32(32)>>, <<U32(32), U32(32)>>, <<U32(0), U32(64)>>,
     <<U32(0), U32(0)>>, <<U32(1), U32(0)>>,
     <<U32(1), U32(32)>>, <<U32(0), U32(1)>>, <<U32(32), U32(64)>>, <<U32(1), U32(64)>>,
     <<Neg32(32), U32(64)>>, <<U32(64), Neg32(32)>>}

\* report-ID framing: the command is preceded by one byte that is no command
ReportId == <<7>>

\* a frame with no command at byte 0 or 1; what follows them is not zero, and
\* byte 2 is a command
NoCommand == Frame(<<7, 9, SECRET_CMD_READ, 1, 2>>)

\* a frame with a command at byte 0 and another one at byte 1
TwoCommands == Frame(<<SECRET_CMD_INFO, SECRET_CMD_ERASE>>)

Requests ==
    {Frame(<<SECRET_CMD_INFO>>), Frame(ReportId \o <<SECRET_CMD_INFO>>),
     NoCommand, TwoCommands}
    \cup {Frame(ReadReq(a[1], a[2])) : a \in ReadArgs}
    \cup {Frame(WriteReq(a[1], a[2], 0)) : a \in WriteArgs}
    \cup {Frame(EraseReq(a[1], a[2])) : a \in EraseArgs}
    \cup {Frame(ReportId \o ReadReq(U32(20), 28)),
          Frame(ReportId \o WriteReq(U32(20), 26, 1))}

\* the frames delivered while another invocation is in progress
NestedRequests ==
    {Frame(ReportId \o <<SECRET_CMD_INFO>>), NoCommand,
     Frame(ReadReq(U32(20), 26)), Frame(ReadReq(U32(0), 0)),
     Frame(WriteReq(U32(20), 26, 1)),
     Frame(EraseReq(U32(0), U32(32))), Frame(EraseReq(U32(1), U32(32)))}

\* what may lie behind req[31] on the stack
JunkBytes == {0, 238}

\* the bytes to choose from for a request: only a WRITE that reads past the
\* frame sees one
JunkFor(req) ==
    LET c == Classify(req)
    IN  IF c.handled /\ c.cmd = SECRET_CMD_WRITE /\ c.base + 6 + req[c.base + 5] > FRAME_SIZE
        THEN JunkBytes ELSE {0}

\* <<keycode, pressed>> of the key events: ESC pressed, ESC released, and
\* another key (KC_A) pressed
KeyEvents == {<<KC_ESC, TRUE>>, <<KC_ESC, FALSE>>, <<4, TRUE>>}

\* -------------------------------------------------------------- dispatcher

\* an invocation in progress has been interrupted by another one
MarkReent(st) == [k \in 1 .. Len(st) |-> [st[k] EXCEPT !.reent = TRUE]]

\* raw_hid_receive_kb(data, length), from its entry to its first return or to
\* the point where it is about to set secret_busy
Dispatch(req, junk) ==
    /\ nframes < MaxFrames
    /\ nframes' = nframes + 1
    /\ LET inv == Entry(req, junk, Len(stack) + 1)
       IN  IF inv.pc = "done"
           THEN /\ last' = inv
                /\ stack' = MarkReent(stack)
           ELSE /\ last' = last
                /\ stack' = Append(MarkReent(stack), inv)
    /\ UNCHANGED <<flash, secret_busy, secret_abort, secret_sector_buf, key>>

\* the transport delivers a frame while no invocation is in progress
raw_hid_receive_kb ==
    /\ stack = <<>>
    /\ \E req \in Requests : \E junk \in JunkFor(req) : Dispatch(req, junk)

\* a frame is delivered while an invocation is in progress, at a point where
\* interrupts are enabled; the nested invocation runs before the outer resumes
Reenter ==
    /\ Len(stack) = 1
    /\ \E req \in NestedRequests : \E junk \in JunkFor(req) : Dispatch(req, junk)

\* the keyboard pipeline hands a key event to the hook; it does so at any
\* point at which interrupts are enabled
\* Only ESC presses are drawn here: with nobody observing the return value,
\* any other event leaves every variable as it is.
KeyEvent ==
    \E e \in {k \in KeyEvents : k[2] /\ k[1] = KC_ESC} : \E ret \in BOOLEAN :
        /\ secret_storage_process_record_user(e[1], e[2], ret)
        /\ stack' = NoteKey(stack, e[2] /\ e[1] = KC_ESC)
        /\ key' = key

\* the same with an observer at the hook, who notes the event, the flags the
\* hook found and the value it returned
KeyEventObserved ==
    \E e \in KeyEvents : \E ret \in BOOLEAN :
        /\ secret_storage_process_record_user(e[1], e[2], ret)
        /\ stack' = NoteEarly(stack, e[2] /\ e[1] = KC_ESC)
        /\ key' = [keycode |-> e[1], pressed |-> e[2], ret |-> ret,
                   busy |-> secret_busy, abort |-> secret_abort, n |-> 1 - key.n]

\* the frames delivered while the hook is observed: INFO, a READ and a WRITE
\* across the sector boundary, a WRITE past the end of the region, and an
\* ERASE of both sectors
ObservedRequests ==
    {Frame(<<SECRET_CMD_INFO>>),
     Frame(ReadReq(U32(20), 26)),
     Frame(WriteReq(U32(20), 26, 0)), Frame(WriteReq(U32(39), 26, 0)),
     Frame(EraseReq(U32(0), U32(64)))}

\* the transport delivers one of these frames while no invocation is in progress
ReceiveObserved ==
    /\ stack = <<>>
    /\ \E req \in ObservedRequests : \E junk \in JunkFor(req) : Dispatch(req, junk)

InitFlash ==
    [x \in FlashAddrs |->
        IF x < SECRET_STORAGE_BASE[2] THEN 17
        ELSE IF x < SECRET_STORAGE_BASE[2] + SECRET_STORAGE_SIZE THEN 80 + (x % 8)
        ELSE 34]

Init ==
    /\ StaticAsserts
    /\ flash = InitFlash
    /\ secret_busy = FALSE
    /\ secret_abort = FALSE
    /\ secret_sector_buf = [i \in SectorIdx |-> 0]
    /\ stack = <<>>
    /\ nframes = 0
    /\ key = [keycode |-> 0, pressed |-> FALSE, ret |-> TRUE,
              busy |-> FALSE, abort |-> FALSE, n |-> 0]
    /\ last = [Invocation(Frame(<<>>), [handled |-> FALSE, base |-> 0, cmd |-> 0], 0)
                    EXCEPT !.pc = "none", !.post = Snapshot]

Next ==
    \/ raw_hid_receive_kb
    \/ Reenter
    \/ SetBusy
    \/ ClearAbort
    \/ ReadStep
    \/ EraseStep
    \/ WriteStep
    \/ ClearBusy
    \/ Report
    \/ KeyEvent

Spec == Init /\ [][Next]_vars

\* one step of the invocation in progress
Run ==
    \/ SetBusy
    \/ ClearAbort
    \/ ReadStep
    \/ EraseStep
    \/ WriteStep
    \/ ClearBusy
    \/ Report

\* the frames delivered where termination is checked: every command, the
\* transfers across the sector boundary, the ERASE of both sectors, the
\* requests that wrap (among them an ERASE of nearly 2^32 bytes), a rejected
\* request and a frame without a command
FairRequests ==
    {Frame(<<SECRET_CMD_INFO>>), NoCommand,
     Frame(ReadReq(U32(20), 26)),
     Frame(WriteReq(U32(20), 26, 0)), Frame(WriteReq(Neg32(1), 2, 0)),
     Frame(EraseReq(U32(0), U32(64))), Frame(EraseReq(U32(1), U32(32))),
     Frame(EraseReq(Neg32(32), U32(64))), Frame(EraseReq(U32(64), Neg32(32)))}

\* the frames delivered there while another invocation is in progress
FairNested ==
    {Frame(ReportId \o <<SECRET_CMD_INFO>>), Frame(ReadReq(U32(20), 26))}

ReceiveFair ==
    /\ stack = <<>>
    /\ \E req \in FairRequests : Dispatch(req, 0)

ReenterFair ==
    /\ Len(stack) = 1
    /\ \E req \in FairNested : Dispatch(req, 0)

NextFair ==
    \/ ReceiveFair
    \/ ReenterFair
    \/ SetBusy
    \/ ClearAbort
    \/ ReadStep
    \/ EraseStep
    \/ WriteStep
    \/ ClearBusy
    \/ Report
    \/ KeyEvent

\* raw_hid_receive_kb runs to completion on the processor: nothing it waits
\* for, so an invocation in progress always takes its next step
FairSpec == Init /\ [][NextFair]_vars /\ WF_vars(Run)

\* the program with an observer at the key hook, frames arriving one at a time
NextObserved ==
    \/ ReceiveObserved
    \/ SetBusy
    \/ ClearAbort
    \/ ReadStep
    \/ EraseStep
    \/ WriteStep
    \/ ClearBusy
    \/ Report
    \/ KeyEventObserved

SpecObserved == Init /\ [][NextObserved]_vars


\* ------------------------------------------------------------- properties

\* the status byte of an invocation's response, p[1]
Status(inv) == inv.data[inv.base + 1]

Returned(inv) == inv.pc = "done" /\ inv.handled

IsRead(inv) == Returned(inv) /\ inv.cmd = SECRET_CMD_READ

IsWrite(inv) == Returned(inv) /\ inv.cmd = SECRET_CMD_WRITE

IsErase(inv) == Returned(inv) /\ inv.cmd = SECRET_CMD_ERASE

IsInfo(inv) == Returned(inv) /\ inv.cmd = SECRET_CMD_INFO

\* the secret region [base, base + storage_size) as flash byte addresses
RegionLo == PICO_FLASH_SIZE_BYTES - WEAR_LEVELING_BACKING_SIZE - SECRET_STORAGE_SIZE

RegionHi == RegionLo + SECRET_STORAGE_SIZE

InRegion(x) == x >= RegionLo /\ x < RegionHi

\* the sector at flash offset a lies entirely inside the secret region
SectorInRegion(a) == a[1] = 0 /\ a[2] >= RegionLo /\ a[2] + FLASH_SECTOR_SIZE <= RegionHi

\* offset + size as a mathematical sum exceeds the region size
BeyondRegion(offset, size) ==
    offset[1] > 0 \/ size[1] > 0 \/ offset[2] + size[2] > SECRET_STORAGE_SIZE

\* the invocation ran alone: it was delivered by the transport while idle, no
\* ESC press reached the hook during it and no other invocation interrupted it
RanAlone(inv) == inv.depth = 1 /\ ~inv.pre.busy /\ ~inv.esc /\ ~inv.reent

\* C1: every flash sector that is erased or programmed lies entirely inside
\* [base, base + storage_size), and no byte of flash outside the secret region
\* ever changes.
C1_RegionConfinement ==
    /\ \A x \in FlashAddrs : ~InRegion(x) => flash[x] = InitFlash[x]
    /\ \A a \in last.hw : SectorInRegion(a)
    /\ \A k \in 1 .. Len(stack) : \A a \in stack[k].hw : SectorInRegion(a)

\* C2: whenever the response to a READ, WRITE or ERASE frame carries status
\* ERR, RANGE, ALIGN or BUSY, no flash erase or program call was made during
\* that dispatch, and flash, busy and abort_requested are the same after the
\* dispatch as before it.
C2_RejectedLeavesStorage ==
    ((IsRead(last) \/ IsWrite(last) \/ IsErase(last))
        /\ Status(last) \in {SECRET_STATUS_ERR, SECRET_STATUS_RANGE,
                             SECRET_STATUS_ALIGN, SECRET_STATUS_BUSY})
    => (last.hw = {} /\ last.post = last.pre)

\* C3: a READ or WRITE request received while idle whose offset + size, as a
\* mathematical sum, is greater than the region size gets status RANGE.  The
\* size check of the code comes first, so the property is stated for the sizes
\* that pass it: 1..28 for READ, 1..26 for WRITE.
C3_RangeRejected ==
    (/\ IsRead(last) \/ IsWrite(last)
     /\ ~last.pre.busy
     /\ last.size[2] >= 1
     /\ last.size[2] <= (IF last.cmd = SECRET_CMD_READ THEN 28 ELSE 26)
     /\ BeyondRegion(last.offset, last.size))
    => Status(last) = SECRET_STATUS_RANGE

\* C4 as stated: an ERASE request received while idle whose offset or size is
\* not a multiple of the sector size gets status ALIGN.
C4_MisalignedIsAlign ==
    (/\ IsErase(last)
     /\ ~last.pre.busy
     /\ (last.offset[2] % FLASH_SECTOR_SIZE # 0 \/ last.size[2] % FLASH_SECTOR_SIZE # 0))
    => Status(last) = SECRET_STATUS_ALIGN

\* C4 amended: an ERASE request received while idle whose offset or size is
\* not a multiple of the sector size gets status ALIGN provided its size is
\* not zero and offset + size, taken modulo 2^32, does not exceed the region
\* size; with size zero it gets ERR, and with offset + size (modulo 2^32)
\* beyond the region size it gets RANGE.
C4_MisalignedAfterSizeAndRange ==
    (/\ IsErase(last)
     /\ ~last.pre.busy
     /\ (last.offset[2] % FLASH_SECTOR_SIZE # 0 \/ last.size[2] % FLASH_SECTOR_SIZE # 0))
    => LET sum == Add32(last.offset, last.size)
       IN  Status(last) =
                IF last.size = <<0, 0>> THEN SECRET_STATUS_ERR
                ELSE IF sum[1] > 0 \/ sum[2] > SECRET_STORAGE_SIZE THEN SECRET_STATUS_RANGE
                ELSE SECRET_STATUS_ALIGN

\* a misaligned ERASE has been answered with ALIGN
C4_Witness ==
    /\ IsErase(last)
    /\ ~last.pre.busy
    /\ last.size[2] % FLASH_SECTOR_SIZE # 0
    /\ Status(last) = SECRET_STATUS_ALIGN

\* C5: a READ with size 0 or size > 28, or a WRITE with size 0 or size > 26,
\* received while idle, gets status ERR for any offset, and no flash access
\* (read, erase or program) occurs.
C5_BadSizeIsErr ==
    (/\ ~last.pre.busy
     /\ \/ IsRead(last) /\ (last.size[2] = 0 \/ last.size[2] > 28)
        \/ IsWrite(last) /\ (last.size[2] = 0 \/ last.size[2] > 26))
    => (/\ Status(last) = SECRET_STATUS_ERR
        /\ ~last.ran /\ ~last.rd /\ last.hw = {}
        /\ last.post.flash = last.pre.flash)

\* a READ of 29 bytes at an offset that would otherwise be accepted has been
\* answered with ERR
C5_Witness ==
    /\ IsRead(last)
    /\ ~last.pre.busy
    /\ last.size[2] = 29
    /\ last.offset = <<0, 0>>
    /\ Status(last) = SECRET_STATUS_ERR


\* the payload bytes of a WRITE request sent without a report ID
SentPayload(w, i) == w.req[6 + i]

\* the payload byte i of a READ response
ReadPayload(r, i) == r.data[r.base + 3 + i]

\* a WRITE of N bytes, 1 <= N <= 26, at an offset with offset + N inside the
\* region, sent without a report ID, that ran alone
GoodWrite(w) ==
    /\ IsWrite(w)
    /\ w.base = 0
    /\ RanAlone(w)
    /\ w.size[2] >= 1 /\ w.size[2] <= 26
    /\ ~BeyondRegion(w.offset, w.size)

\* C6: starting idle and with no cancellation, a WRITE of N bytes (1..26,
\* unprefixed frame) at an offset with offset + N <= region size returns OK,
\* and a following READ of N bytes at the same offset returns OK, echoes size
\* N and returns exactly the written bytes.  The step that completes the READ
\* is the one that replaces the WRITE as the most recent invocation.
C6_RoundTrip ==
    [][ /\ GoodWrite(last') => Status(last') = SECRET_STATUS_OK
        /\ (/\ GoodWrite(last)
            /\ IsRead(last') /\ RanAlone(last')
            /\ last'.offset = last.offset /\ last'.size = last.size)
           => (/\ Status(last') = SECRET_STATUS_OK
               /\ last'.data[last'.base + 2] = last.size[2]
               /\ \A i \in 0 .. (last.size[2] - 1) :
                    ReadPayload(last', i) = SentPayload(last, i)) ]_vars

\* a READ of 26 bytes at offset 20, across the sector boundary, has returned
\* the bytes 0x01 .. 0x1A, which only a WRITE can have put there
C6_Witness ==
    /\ IsRead(last) /\ RanAlone(last)
    /\ last.offset = <<0, 20>> /\ last.size = <<0, 26>>
    /\ Status(last) = SECRET_STATUS_OK
    /\ \A i \in 0 .. 25 : ReadPayload(last, i) = i + 1

\* an ERASE with sector-aligned offset and size, size > 0, offset + size
\* inside the region, that ran alone
GoodErase(e) ==
    /\ IsErase(e)
    /\ RanAlone(e)
    /\ ~BeyondRegion(e.offset, e.size)
    /\ e.size[2] > 0
    /\ e.offset[2] % FLASH_SECTOR_SIZE = 0
    /\ e.size[2] % FLASH_SECTOR_SIZE = 0

\* flash byte x lies in the range [offset, offset + size) of the region
InRange(e, x) == x >= RegionLo + e.offset[2] /\ x < RegionLo + e.offset[2] + e.size[2]

\* C7: for every sector-aligned in-range (offset, size) with size > 0 and no
\* cancellation, ERASE returns OK, afterwards every byte of [offset,
\* offset+size) is 0xFF and every other byte is unchanged; the same ERASE on
\* the already erased range returns OK again and leaves the flash identical.
C7_EraseResult ==
    GoodErase(last) =>
        /\ Status(last) = SECRET_STATUS_OK
        /\ \A x \in FlashAddrs :
                last.post.flash[x] = IF InRange(last, x) THEN 255 ELSE last.pre.flash[x]
        /\ (\A x \in FlashAddrs : InRange(last, x) => last.pre.flash[x] = 255)
                => last.post.flash = last.pre.flash

\* an ERASE of both sectors has returned OK on a range an earlier ERASE had
\* already erased
C7_Witness ==
    /\ GoodErase(last)
    /\ last.size = <<0, 64>>
    /\ \A x \in FlashAddrs : InRange(last, x) => last.pre.flash[x] = 255
    /\ Status(last) = SECRET_STATUS_OK
    /\ last.hw # {}

\* C8: a READ, WRITE or ERASE frame dispatched while busy is true receives
\* status BUSY whatever its arguments, and that dispatch changes neither the
\* flash contents nor busy nor abort_requested.
C8_BusyRejection ==
    ((IsRead(last) \/ IsWrite(last) \/ IsErase(last)) /\ last.pre.busy)
    => (/\ Status(last) = SECRET_STATUS_BUSY
        /\ last.post = last.pre
        /\ last.hw = {} /\ ~last.ran)

\* a READ with size 0, which validation would answer with ERR, has been
\* answered with BUSY
C8_Witness ==
    /\ IsRead(last) /\ last.pre.busy
    /\ last.size = <<0, 0>>
    /\ Status(last) = SECRET_STATUS_BUSY

\* the response bytes from position k on, counted from the command byte
InfoBytes(inv, k, n) == [i \in 1 .. n |-> inv.data[inv.base + k + i - 1]]

\* C9 as stated: counted from the command byte, the INFO response is [0]=OK,
\* [1..5)=storage_size, [5..9)=total_flash_size, [9..13)=backing_size,
\* [13..17)=storage_base, [17]=28, [18]=26.
C9_InfoLayoutFromCommandByte ==
    IsInfo(last) =>
        /\ last.data[last.base] = SECRET_STATUS_OK
        /\ InfoBytes(last, 1, 4) = BE32(U32(SECRET_STORAGE_SIZE))
        /\ InfoBytes(last, 5, 4) = BE32(U32(PICO_FLASH_SIZE_BYTES))
        /\ InfoBytes(last, 9, 4) = BE32(U32(WEAR_LEVELING_BACKING_SIZE))
        /\ InfoBytes(last, 13, 4) = BE32(U32(RegionLo))
        /\ last.data[last.base + 17] = 28
        /\ last.data[last.base + 18] = 26

\* C9 amended: counted from the command byte, the INFO response is [1]=OK,
\* [2..6)=storage_size as big-endian u32, [6..10)=total_flash_size,
\* [10..14)=backing_size, [14..18)=storage_base = total_flash_size -
\* backing_size - storage_size, [18]=28, [19]=26; byte [0] is the command
\* byte itself without a report ID and zero after one.
C9_InfoLayout ==
    IsInfo(last) =>
        /\ last.data[last.base] = (IF last.base = 0 THEN SECRET_CMD_INFO ELSE 0)
        /\ last.data[last.base + 1] = SECRET_STATUS_OK
        /\ InfoBytes(last, 2, 4) = BE32(U32(SECRET_STORAGE_SIZE))
        /\ InfoBytes(last, 6, 4) = BE32(U32(PICO_FLASH_SIZE_BYTES))
        /\ InfoBytes(last, 10, 4) = BE32(U32(WEAR_LEVELING_BACKING_SIZE))
        /\ InfoBytes(last, 14, 4) = BE32(U32(RegionLo))
        /\ last.data[last.base + 18] = 28
        /\ last.data[last.base + 19] = 26

\* an INFO request sent after a report ID has been answered
C9_Witness == IsInfo(last) /\ last.base = 1 /\ last.data[0] = 7

\* C10: an INFO frame dispatched in any state, also while busy is true and
\* while abort_requested is true, gets status OK (never BUSY) with the same
\* geometry fields, and leaves flash, busy and abort_requested unchanged.
C10_InfoAlwaysAnswered ==
    IsInfo(last) =>
        /\ Status(last) = SECRET_STATUS_OK
        /\ InfoBytes(last, 2, 16) =
                BE32(U32(SECRET_STORAGE_SIZE)) \o BE32(U32(PICO_FLASH_SIZE_BYTES))
                \o BE32(U32(WEAR_LEVELING_BACKING_SIZE)) \o BE32(U32(RegionLo))
        /\ last.data[last.base + 18] = 28
        /\ last.data[last.base + 19] = 26
        /\ last.post = last.pre
        /\ last.hw = {} /\ ~last.ran

\* an INFO request has been answered while busy and abort_requested were true
C10_Witness == IsInfo(last) /\ last.pre.busy /\ last.pre.abort


\* without a re-entrant request during the invocation, a response with status
\* ERR, RANGE, ALIGN or BUSY comes from the checks made before the engine
RejectedWithoutReentry ==
    ((IsRead(last) \/ IsWrite(last) \/ IsErase(last))
        /\ ~last.reent
        /\ Status(last) \in {SECRET_STATUS_ERR, SECRET_STATUS_RANGE,
                             SECRET_STATUS_ALIGN, SECRET_STATUS_BUSY})
    => (~last.ran /\ last.hw = {} /\ last.post = last.pre)


\* C11: if an ESC press is delivered to the cancellation hook before a valid
\* ERASE or WRITE begins, that is after the request passed validation and
\* before the engine is called, the operation stops at its first sector/chunk
\* boundary (no sector is erased or programmed), reports ABORT, and no byte
\* of flash is changed.
C11_AbortRequestedBeforeStart ==
    ((IsWrite(last) \/ IsErase(last)) /\ last.ran /\ last.early)
    => (/\ Status(last) = SECRET_STATUS_ABORT
        /\ last.hw = {}
        /\ last.post.flash = last.pre.flash)


\* every sector or chunk of the request has been processed
AllProcessed(inv) ==
    IF inv.cmd = SECRET_CMD_READ THEN inv.rd
    ELSE IF inv.cmd = SECRET_CMD_WRITE THEN inv.length = 0
    ELSE ~Lt32(inv.addr, inv.end)

\* C12: for a READ, WRITE or ERASE that passed validation, the status is ABORT
\* if and only if abort_requested was true when the engine returned; a status
\* of OK implies that no cancellation was registered during the operation and
\* that every chunk or sector of the request was processed.  The property is
\* stated of the step in which the invocation writes its status and returns.
C12_AbortPriority ==
    [][ (stack # <<>> /\ Top.pc = "report" /\ Len(stack') < Len(stack))
        => (/\ (Status(last') = SECRET_STATUS_ABORT) <=> Top.eabort
            /\ Status(last') = SECRET_STATUS_OK
                    => (~last'.esc /\ AllProcessed(last'))) ]_vars


\* C13: the key hook returns false exactly when busy is true and true exactly
\* when busy is false; it sets abort_requested when busy is true and the event
\* is a press of the ESC key, and in every other case (not busy, key release,
\* any other key) leaves abort_requested unchanged; it never changes busy or
\* flash.  An observed call of the hook is a step that changes key.
C13_HookContract ==
    [][ key' # key
        => (/\ key'.ret = ~secret_busy
            /\ secret_abort' = (IF secret_busy /\ key'.pressed /\ key'.keycode = KC_ESC
                                 THEN TRUE ELSE secret_abort)
            /\ secret_busy' = secret_busy
            /\ flash' = flash) ]_vars

\* the hook has been called with an ESC press while busy was true and
\* abort_requested false: it returned false and abort_requested is now true
C13_Witness ==
    /\ key.keycode = KC_ESC /\ key.pressed
    /\ key.busy /\ ~key.abort
    /\ ~key.ret
    /\ secret_abort


\* C14: byte 0 of the frame is classified first and byte 1 only if byte 0 is
\* not one of 0xA0..0xA3; if neither is a command, the dispatcher sets byte 0
\* of the buffer to 0xFF, leaves bytes 1..31 as received, and changes neither
\* flash nor busy nor abort_requested, in any state including busy.
C14_Classification ==
    last.pc = "done" =>
        LET r == last.req
            c0 == r[0] \in SECRET_CMD_INFO .. SECRET_CMD_ERASE
            c1 == r[1] \in SECRET_CMD_INFO .. SECRET_CMD_ERASE
        IN  /\ c0 => (last.handled /\ last.base = 0 /\ last.cmd = r[0])
            /\ (~c0 /\ c1) => (/\ last.handled /\ last.base = 1 /\ last.cmd = r[1]
                                /\ last.data[0] = r[0])
            /\ (~c0 /\ ~c1) => (/\ ~last.handled
                                 /\ last.data[0] = 255
                                 /\ \A i \in 1 .. 31 : last.data[i] = r[i]
                                 /\ last.post = last.pre
                                 /\ last.hw = {} /\ ~last.ran)

\* a frame without a command has been answered while busy was true: byte 0 is
\* 0xFF and the bytes after it, a command code at byte 2 among them, are as
\* received
C14_Witness ==
    /\ last.pc = "done" /\ ~last.handled
    /\ last.pre.busy
    /\ last.data = [NoCommand EXCEPT ![0] = 255]


\* C15: under both framings, every frame byte read as WRITE payload (size up
\* to 26), every byte written as READ payload (size up to 28) and every INFO
\* field has an index within 0..31 of the 32-byte frame.  A WRITE has read
\* srcpos payload bytes from index base + 6 on, a READ has written size bytes
\* from index base + 3 on, INFO writes up to index base + 19.
C15_FrameBounds ==
    /\ (IsWrite(last) /\ last.ran)
            => \A i \in 0 .. (last.srcpos - 1) : (last.base + 6 + i) \in FrameIdx
    /\ (IsRead(last) /\ last.rd)
            => \A i \in 0 .. (last.size[2] - 1) : (last.base + 3 + i) \in FrameIdx
    /\ IsInfo(last) => (last.base + 19) \in FrameIdx


\* flash byte x is byte offset + i of the region for some 0 <= i < size, the
\* sum taken as a mathematical one
Requested(inv, x) == inv.offset[1] = 0 /\ InRange(inv, x)

\* C16: after any WRITE that passed validation, completed or aborted, every
\* byte of the secret region outside the requested range [offset, offset +
\* size) holds the value it had before the WRITE.
C16_WritePreservesNeighbours ==
    (IsWrite(last) /\ last.ran)
    => \A x \in FlashAddrs :
            (InRegion(x) /\ ~Requested(last, x)) => last.post.flash[x] = last.pre.flash[x]

\* the same for the WRITEs whose range lies inside the region and that no
\* other invocation interrupted
NeighboursPreservedInRegion ==
    (IsWrite(last) /\ last.ran /\ ~BeyondRegion(last.offset, last.size) /\ ~last.reent)
    => \A x \in FlashAddrs :
            ~Requested(last, x) => last.post.flash[x] = last.pre.flash[x]


\* the sectors an ERASE requests, as flash offsets in ascending order
RequestedSectors(inv) ==
    [k \in 1 .. (inv.size[2] \div FLASH_SECTOR_SIZE) |->
        Add32(secret_flash_offset(inv.offset), U32((k - 1) * FLASH_SECTOR_SIZE))]

\* the sectors the ERASE erased are the first n it requested, and each of the
\* others holds what it held before the ERASE
ErasedPrefix(inv, n) ==
    LET seq == RequestedSectors(inv)
    IN  /\ inv.hw = {seq[k] : k \in 1 .. n}
        /\ \A k \in (n + 1) .. Len(seq) : \A i \in SectorIdx :
                inv.post.flash[seq[k][2] + i] = inv.pre.flash[seq[k][2] + i]

\* C17: when abort_requested becomes true during a validated ERASE, on return
\* the erased sectors are a prefix, possibly empty or complete, of the
\* requested sectors in ascending order, all remaining requested sectors are
\* unchanged, and the status is ABORT.  Stated for the ERASEs whose range lies
\* inside the region.
C17_EraseCancellation ==
    (IsErase(last) /\ last.ran /\ ~BeyondRegion(last.offset, last.size) /\ last.esc)
    => (/\ Status(last) = SECRET_STATUS_ABORT
        /\ \E n \in 0 .. Len(RequestedSectors(last)) : ErasedPrefix(last, n))

\* the same for the ERASEs during which every ESC press reached the hook
\* after the guard had cleared abort_requested
ErasePrefixAfterGuard ==
    (/\ IsErase(last) /\ last.ran /\ ~BeyondRegion(last.offset, last.size)
     /\ last.esc /\ ~last.early)
    => (/\ Status(last) = SECRET_STATUS_ABORT
        /\ \E n \in 0 .. Len(RequestedSectors(last)) : ErasedPrefix(last, n))


\* the flash byte that payload byte i of a WRITE goes to: addr + i in the
\* arithmetic of secret_write_bytes
Target(inv, i) == Add32(secret_flash_offset(inv.offset), U32(i))

\* the payload positions at which a chunk of the WRITE starts or the payload
\* ends: 0, the size, and every position that falls on a sector boundary
ChunkBounds(inv) ==
    {0, inv.size[2]} \cup {n \in 1 .. inv.size[2] : ModSector(Target(inv, n)) = 0}

\* the region as it is when exactly the first n payload bytes of the WRITE
\* are committed: those bytes laid over what the flash held before the WRITE.
\* The payload position whose target is flash byte x is x - addr as a
\* uint32_t, a value of size or more when x is no target.
Committed(inv, n, f) ==
    LET addr == secret_flash_offset(inv.offset)
        old == inv.pre.flash
        req == inv.req
        first == inv.base + 6
    IN  \A x \in RegionLo .. (RegionHi - 1) :
            LET i == Sub32(<<0, x>>, addr)
            IN  f[x] = IF i[1] = 0 /\ i[2] < n
                       THEN (IF first + i[2] < FRAME_SIZE THEN req[first + i[2]]
                             ELSE inv.junk)
                       ELSE old[x]

\* C18: during a WRITE, for every interleaving of the cancellation hook, at
\* every point where interrupts are enabled each sector of the region holds
\* either its contents from before the chunk or those contents with the whole
\* chunk overlaid, never an erased or partly programmed sector, and the
\* committed chunks are a prefix of the request's chunks, also on abort.
\* Stated for the WRITEs that no other invocation interrupts, at every point
\* from the call of the engine to the return of the invocation.
C18_SectorCompletes ==
    (/\ stack # <<>> /\ Top.cmd = SECRET_CMD_WRITE /\ ~Top.reent
     /\ Top.pc \in {"engine", "clear_busy", "report"})
    => \E n \in ChunkBounds(Top) : Committed(Top, n, flash)

\* a WRITE of 26 bytes across the sector boundary is in its loop with ESC
\* registered after the first chunk: the first 12 bytes are committed and the
\* second sector holds what it held before
C18_Witness ==
    /\ stack # <<>> /\ Top.cmd = SECRET_CMD_WRITE /\ ~Top.reent
    /\ Top.pc = "engine" /\ secret_abort
    /\ Top.offset = <<0, 20>> /\ Top.size = <<0, 26>>
    /\ Committed(Top, 12, flash)
    /\ ~Committed(Top, 0, flash) /\ ~Committed(Top, 26, flash)


\* C19 as stated, its part about the state on return: whenever a dispatcher
\* invocation has returned, busy is false.
C19_ReturnedBusyFalse == last.pc = "done" => ~last.post.busy

\* the invocation stands between the guard's set and clear of busy
InGuard(inv) == inv.pc \in {"clear_abort", "engine", "clear_busy"}

\* busy is true exactly while one invocation stands between the guard's set
\* and clear of busy, and is false when no invocation is in progress
BusyOnlyInGuard ==
    /\ secret_busy <=> (\E k \in 1 .. Len(stack) : InGuard(stack[k]))
    /\ Cardinality({k \in 1 .. Len(stack) : InGuard(stack[k])}) <= 1
    /\ (last.pc = "done" /\ ~last.pre.busy) => ~last.post.busy

\* C19 amended: every dispatcher invocation, for every frame and every timing
\* of cancellation events, returns after finitely many steps; busy is true
\* only between the guard's set and clear around one engine invocation, so
\* busy is false whenever no invocation is in progress and whenever an
\* invocation that found busy false has returned.  An invocation that finds
\* busy true returns with busy still true.
C19_ReturnToIdle ==
    /\ [](BusyOnlyInGuard)
    /\ (stack # <<>>) ~> (stack = <<>>)
    /\ [][(stack # <<>> /\ Top.pre.busy /\ Len(stack') < Len(stack))
            => secret_busy']_vars

\* an ERASE of both sectors that no ESC press cut short has returned, with
\* busy false and no invocation in progress
C19_Witness ==
    /\ stack = <<>> /\ ~secret_busy
    /\ IsErase(last) /\ last.ran /\ ~last.esc
    /\ Cardinality(last.hw) = 2


\* the first invocation, the one the transport delivered while idle
First == stack[1]

\* what the engine of a WRITE leaves when it returns: the payload bytes it
\* consumed are in flash at their targets, all of them unless it was cut
\* short, and the scratch buffer holds the sector it programmed last
WriteResult(inv) ==
    /\ \A i \in 0 .. (inv.srcpos - 1) :
            flash[Target(inv, i)[2]] = WriteSrc(inv.req, inv.base, inv.junk, i)
    /\ inv.ok => inv.srcpos = inv.size[2]
    /\ inv.srcpos > 0 =>
            LET start == SectorStart(Sub32(inv.addr, U32(1)))
            IN  \A i \in SectorIdx : secret_sector_buf[i] = flash[start[2] + i]

\* what the engine of an ERASE leaves when it returns: every sector it erased
\* reads 0xFF, and so does the whole range unless it was cut short
EraseOutcome(inv) ==
    /\ \A a \in inv.hw : \A i \in SectorIdx : flash[a[2] + i] = 255
    /\ (inv.ok /\ ~BeyondRegion(inv.offset, inv.size))
            => \A x \in FlashAddrs : InRange(inv, x) => flash[x] = 255

====
